---- MODULE Spec2Model ----
(***************************************************************************)
(* A model of bard.py: main, get_readme_content and generate_song.         *)
(*                                                                         *)
(* URLs, names and printed lines are strings (Len, SubSeq and \o act on    *)
(* them character by character); a response body is a sequence of bytes    *)
(* and a README text a sequence of code points.  The network and the       *)
(* external gemini tool are the environment: what each candidate location  *)
(* answers (net, doc) and how the tool behaves (tool) are fixed when the   *)
(* run starts and never change.                                            *)
(***************************************************************************)
EXTENDS Integers, Sequences, FiniteSets, TLC

VARIABLES
    argv,            \* the positional command-line arguments: <<url>> or <<url, style>>
    net,             \* environment: the answer of every candidate location
    doc,             \* environment: the README the repository serves
    tool,            \* environment: the behaviour of the gemini executable
    pc,              \* position of the run
    repo_name,       \* main: the display name
    owner,           \* get_readme_content: match.groups()[0]
    repo,            \* get_readme_content: match.groups()[1]
    bi,              \* get_readme_content: index of the branch loop
    fi,              \* get_readme_content: index of the filename loop
    requests,        \* the raw_url of every urlopen call, in order
    readme_content,  \* main: the text get_readme_content returned
    gemini_runs,     \* the prompt of every subprocess.run(["gemini", prompt]) call
    song,            \* main: the text generate_song returned
    out,             \* the lines printed to standard output, in order
    uncaught,        \* the exception that ended the run with a traceback, or "none"
    exit_code        \* the exit code of the process once pc = "exited"

vars == <<argv, net, doc, tool, pc, repo_name, owner, repo, bi, fi, requests,
          readme_content, gemini_runs, song, out, uncaught, exit_code>>

env == <<argv, net, doc, tool>>

-----------------------------------------------------------------------------
(* Bounds of the model *)

\* the number of pieces a generated URL has after its host
MaxTail == 4

\* the README texts reach PromptReadmeLimit + MaxOver characters
MaxOver == 2

-----------------------------------------------------------------------------
(* Python str operations *)

CharAt(s, i) == SubSeq(s, i, i)

StartsWithAt(s, i, lit) ==
    /\ i + Len(lit) - 1 =< Len(s)
    /\ SubSeq(s, i, i + Len(lit) - 1) = lit

\* s.rstrip(ch): every trailing ch is removed
RECURSIVE RStrip(_, _)
RStrip(s, ch) ==
    IF Len(s) > 0 /\ CharAt(s, Len(s)) = ch
    THEN RStrip(SubSeq(s, 1, Len(s) - 1), ch)
    ELSE s

\* s.replace(old, new): every non-overlapping occurrence, found left to right
RECURSIVE ReplaceFrom(_, _, _, _)
ReplaceFrom(s, i, old, new) ==
    IF i > Len(s) THEN ""
    ELSE IF StartsWithAt(s, i, old)
         THEN new \o ReplaceFrom(s, i + Len(old), old, new)
         ELSE CharAt(s, i) \o ReplaceFrom(s, i + 1, old, new)

Replace(s, old, new) == ReplaceFrom(s, 1, old, new)

\* s.split(sep)[-1] for a one-character sep: what follows the last sep
SplitLast(s, sep) ==
    LET seps == {i \in 1..Len(s) : CharAt(s, i) = sep}
        last == IF seps = {} THEN 0 ELSE CHOOSE i \in seps : \A j \in seps : j =< i
    IN  SubSeq(s, last + 1, Len(s))

\* ch * n
RECURSIVE Repeat(_, _)
Repeat(ch, n) == IF n = 0 THEN "" ELSE ch \o Repeat(ch, n - 1)

-----------------------------------------------------------------------------
(* re.search(r"github\.com/([^/]+)/([^/]+)", url) *)

HostLiteral == "github.com/"

\* the first index from i on that is past the end or holds a "/":
\* where a greedy [^/]+ starting at i stops
RunEnd(s, i) ==
    LET stops == {j \in i..(Len(s) + 1) : j = Len(s) + 1 \/ CharAt(s, j) = "/"}
    IN  CHOOSE j \in stops : \A k \in stops : j =< k

\* the pattern with ([^/]*) as its second group: an empty repo matches
MatchAt_EmptyRepo(s, p) ==
    /\ StartsWithAt(s, p, HostLiteral)
    /\ LET o  == p + Len(HostLiteral)
           oe == RunEnd(s, o)
       IN  /\ oe > o
           /\ oe =< Len(s)

\* the pattern matches with its first character at p
MatchAt(s, p) ==
    /\ StartsWithAt(s, p, HostLiteral)
    /\ LET o  == p + Len(HostLiteral)
           oe == RunEnd(s, o)
       IN  /\ oe > o
           /\ oe =< Len(s)
           /\ RunEnd(s, oe + 1) > oe + 1

NoMatch == [matched |-> FALSE, owner |-> "", repo |-> ""]

\* the leftmost match and its two groups
ReSearch(s) ==
    LET ps == {p \in 1..Len(s) : MatchAt(s, p)}
    IN  IF ps = {} THEN NoMatch
        ELSE LET p  == CHOOSE q \in ps : \A r \in ps : q =< r
                 o  == p + Len(HostLiteral)
                 oe == RunEnd(s, o)
                 re == RunEnd(s, oe + 1)
             IN  [matched |-> TRUE,
                  owner   |-> SubSeq(s, o, oe - 1),
                  repo    |-> SubSeq(s, oe + 1, re - 1)]

-----------------------------------------------------------------------------
(* bytes.decode('utf-8'), and the encodings a server may have used *)

IsCont(b) == b >= 128 /\ b =< 191

\* the length of the sequence a lead byte starts, 0 for a byte that starts none
LeadLen(b) ==
    IF b =< 127 THEN 1
    ELSE IF b >= 194 /\ b =< 223 THEN 2
    ELSE IF b >= 224 /\ b =< 239 THEN 3
    ELSE IF b >= 240 /\ b =< 244 THEN 4
    ELSE 0

\* a complete, shortest-form, non-surrogate sequence starts at i
WellFormedAt(bs, i) ==
    LET n == LeadLen(bs[i])
    IN  /\ n > 0
        /\ i + n - 1 =< Len(bs)
        /\ \A k \in 1..(n - 1) : IsCont(bs[i + k])
        /\ bs[i] = 224 => bs[i + 1] >= 160
        /\ bs[i] = 237 => bs[i + 1] =< 159
        /\ bs[i] = 240 => bs[i + 1] >= 144
        /\ bs[i] = 244 => bs[i + 1] =< 143

\* the continuation byte at i belongs to a sequence that starts before it
Covered(bs, i) ==
    \E d \in 1..3 :
        /\ i - d >= 1
        /\ LeadLen(bs[i - d]) > d
        /\ \A k \in 1..(d - 1) : IsCont(bs[i - k])

ValidUtf8(bs) ==
    \A i \in 1..Len(bs) :
        IF IsCont(bs[i]) THEN Covered(bs, i) ELSE WellFormedAt(bs, i)

CodePointAt(bs, i) ==
    LET n == LeadLen(bs[i])
    IN  CASE n = 1 -> bs[i]
          [] n = 2 -> (bs[i] - 192) * 64 + (bs[i + 1] - 128)
          [] n = 3 -> (bs[i] - 224) * 4096 + (bs[i + 1] - 128) * 64
                      + (bs[i + 2] - 128)
          [] OTHER -> (bs[i] - 240) * 262144 + (bs[i + 1] - 128) * 4096
                      + (bs[i + 2] - 128) * 64 + (bs[i + 3] - 128)

\* the code points of the sequences that start in lo..hi, in order
RECURSIVE DecodeRange(_, _, _)
DecodeRange(bs, lo, hi) ==
    IF lo > hi THEN <<>>
    ELSE IF lo = hi
         THEN IF IsCont(bs[lo]) THEN <<>> ELSE <<CodePointAt(bs, lo)>>
         ELSE LET mid == (lo + hi) \div 2
              IN  DecodeRange(bs, lo, mid) \o DecodeRange(bs, mid + 1, hi)

\* bs.decode('utf-8'): the text, or the UnicodeDecodeError it raises
Decode(bs) ==
    IF ValidUtf8(bs)
    THEN [ok |-> TRUE, text |-> DecodeRange(bs, 1, Len(bs))]
    ELSE [ok |-> FALSE, text |-> <<>>]

Utf8Bytes(cp) ==
    IF cp < 128 THEN <<cp>>
    ELSE IF cp < 2048 THEN <<192 + (cp \div 64), 128 + (cp % 64)>>
    ELSE IF cp < 65536
         THEN <<224 + (cp \div 4096), 128 + ((cp \div 64) % 64), 128 + (cp % 64)>>
         ELSE <<240 + (cp \div 262144), 128 + ((cp \div 4096) % 64),
                128 + ((cp \div 64) % 64), 128 + (cp % 64)>>

RECURSIVE EncodeRange(_, _, _)
EncodeRange(text, lo, hi) ==
    IF lo > hi THEN <<>>
    ELSE IF lo = hi THEN Utf8Bytes(text[lo])
         ELSE LET mid == (lo + hi) \div 2
              IN  EncodeRange(text, lo, mid) \o EncodeRange(text, mid + 1, hi)

\* the bytes of a text in an encoding (latin-1: one byte per code point)
Encode(text, encoding) ==
    IF encoding = "utf-8" THEN EncodeRange(text, 1, Len(text)) ELSE text

-----------------------------------------------------------------------------
(* The program's constants *)

\* the fallback branch tried first
branches_MasterFirst == <<"master", "main">>

branches == <<"main", "master">>

filenames == <<"README.md", "README.rst", "README.txt", "readme.md">>

RawHost == "https://raw.githubusercontent.com/"

DefaultStyle == "Epic Power Metal"

\* readme_text[:8000]
PromptReadmeLimit == 8000

\* "=" * 40
SeparatorWidth == 40

\* f"{base_raw_url}/{branch}/{filename}"
RawUrl(o, r, branch, filename) ==
    RawHost \o o \o "/" \o r \o "/" \o branch \o "/" \o filename

-----------------------------------------------------------------------------
(* The environment: the network *)

\* every location the program may ask for, as <<branch, filename>>
Candidates == {<<"main", "README.md">>, <<"main", "README.rst">>,
               <<"main", "README.txt">>, <<"main", "readme.md">>,
               <<"master", "README.md">>, <<"master", "README.rst">>,
               <<"master", "README.txt">>, <<"master", "readme.md">>}

Found       == [kind |-> "ok", status |-> 200, encoding |-> "utf-8"]
FoundLatin1 == [kind |-> "ok", status |-> 200, encoding |-> "latin-1"]
NotFound    == [kind |-> "http_error", status |-> 404, encoding |-> "utf-8"]
Unavailable == [kind |-> "http_error", status |-> 503, encoding |-> "utf-8"]
Unreachable == [kind |-> "url_error", status |-> 0, encoding |-> "utf-8"]

BranchMark == ("main" :> 77) @@ ("master" :> 83)

FileMark == ("README.md" :> 100) @@ ("README.rst" :> 114)
            @@ ("README.txt" :> 116) @@ ("readme.md" :> 108)

\* the README stored at candidate c: d.n code points, the first two naming the
\* candidate, every other one a non-ASCII letter when d.wide
TextOf(c, d) ==
    [j \in 1..d.n |->
        IF j = 1 THEN BranchMark[c[1]]
        ELSE IF j = 2 THEN FileMark[c[2]]
        ELSE IF d.wide /\ j % 2 = 1 THEN 224 + (j % 16)
        ELSE 97 + (j % 26)]

\* response.read() of a successful response for candidate c
Body(c) == Encode(TextOf(c, doc), net[c].encoding)

-----------------------------------------------------------------------------
(* The environment: the gemini executable, the arguments, the inputs drawn *)

ToolSong    == [kind |-> "exit", code |-> 0,
                stdout |-> "**Title:** X\n**Style:** Y\n**Lyrics:**\n[Verse]",
                stderr |-> ""]
ToolFails   == [kind |-> "exit", code |-> 1,
                stdout |-> "**Title:** half a song", stderr |-> "quota exceeded"]
ToolUsage   == [kind |-> "exit", code |-> 2, stdout |-> "", stderr |-> "usage: gemini"]
ToolMissing == [kind |-> "missing", code |-> 0, stdout |-> "", stderr |-> ""]
ToolNoExec  == [kind |-> "not_executable", code |-> 0, stdout |-> "", stderr |-> ""]

Tools == {ToolSong, ToolFails, ToolUsage, ToolMissing, ToolNoExec}

ExampleUrl == "https://github.com/foo/bar.git"

UrlBases == {"https://github.com/", "github.com/", "https://www.github.com/",
             "https://gitlab.com/"}

UrlOwners == {"", "foo/", "my.github/"}

TailPieces == {"bar", "/", ".git", "hub.io"}

\* every concatenation of at most k pieces
RECURSIVE TailsOf(_)
TailsOf(k) ==
    IF k = 0 THEN {""}
    ELSE LET shorter == TailsOf(k - 1)
         IN  shorter \cup {t \o p : t \in shorter, p \in TailPieces}

Urls == {b \o o \o t : b \in UrlBases, o \in UrlOwners, t \in TailsOf(MaxTail)}

SmallDoc == [n |-> 5, wide |-> TRUE]

DocLengths ==
    {0, 1, 2} \cup ((PromptReadmeLimit - 1)..(PromptReadmeLimit + MaxOver))

Docs == [n : DocLengths, wide : BOOLEAN]

AllFound == [c \in Candidates |-> Found]

\* every pattern of found / not found, and every single other answer among them
FetchNets ==
    [Candidates -> {Found, NotFound}]
    \cup {[c \in Candidates |-> IF c = x THEN r ELSE others] :
             x \in Candidates,
             r \in {Unavailable, Unreachable, FoundLatin1},
             others \in {Found, NotFound, Unavailable}}

TextNets ==
    {AllFound,
     [c \in Candidates |-> IF c = <<"master", "README.md">> THEN Found ELSE NotFound]}

-----------------------------------------------------------------------------
(* The run *)

NoValue == <<>>

Line(kind, text) == [kind |-> kind, text |-> text]

\* argparse: url, and style with its default (main, lines 90-94)
ParseArgs(a) ==
    [url   |-> a[1],
     style |-> IF Len(a) >= 2 THEN a[2] ELSE DefaultStyle]

\* the run starts with the arguments accepted by the parser
InitRun ==
    /\ pc = "start"
    /\ repo_name = ""
    /\ owner = ""
    /\ repo = ""
    /\ bi = 1
    /\ fi = 1
    /\ requests = <<>>
    /\ readme_content = NoValue
    /\ gemini_runs = <<>>
    /\ song = NoValue
    /\ out = <<>>
    /\ uncaught = "none"
    /\ exit_code = -1

\* the fetch loop against every pattern of answers and every behaviour of the
\* tool, for the example URL
InitFetch ==
    /\ argv \in {<<ExampleUrl>>, <<ExampleUrl, "Sea Shanty">>}
    /\ net \in FetchNets
    /\ doc = SmallDoc
    /\ tool \in Tools

\* every generated URL, against a repository that serves every candidate
InitUrl ==
    /\ argv \in {<<u>> : u \in Urls}
    /\ net = AllFound
    /\ doc = SmallDoc
    /\ tool = ToolSong

\* READMEs of every length around the limit
InitText ==
    /\ argv = <<ExampleUrl>>
    /\ net \in TextNets
    /\ doc \in Docs
    /\ tool \in {ToolSong, ToolFails}

Init == InitRun /\ (InitFetch \/ InitUrl \/ InitText)

-----------------------------------------------------------------------------
(* main, lines 96-99 *)

\* args.url.split("/")[-1].replace(".git", "")
DisplayName(url) == Replace(SplitLast(url, "/"), ".git", "")

MainStart ==
    /\ pc = "start"
    /\ repo_name' = DisplayName(ParseArgs(argv).url)
    /\ out' = out \o <<Line("progress", "Tuning instruments for "
                                         \o DisplayName(ParseArgs(argv).url) \o "..."),
                       Line("progress", "Reading the sacred texts (README)...")>>
    /\ pc' = "resolve"
    /\ UNCHANGED <<env, owner, repo, bi, fi, requests, readme_content,
                   gemini_runs, song, uncaught, exit_code>>

-----------------------------------------------------------------------------
(* get_readme_content *)

\* repo_url.rstrip("/").replace(".git", "")
Normalize(repo_url) == Replace(RStrip(repo_url, "/"), ".git", "")

ParseErrorLine(url) == Line("error", "Error: Could not parse GitHub URL: " \o url)

\* the message built from the normalised url instead of repo_url
NotFoundLine_Normalized(repo_url) ==
    Line("error", "Error: Could not find README in " \o Normalize(repo_url)
                  \o " (checked main/master branches).")

NotFoundLine(repo_url) ==
    Line("error", "Error: Could not find README in " \o repo_url
                  \o " (checked main/master branches).")

\* lines 15-28: normalise, match, and either exit or enter the loops
Resolve ==
    /\ pc = "resolve"
    /\ LET url == Normalize(ParseArgs(argv).url)
           m   == ReSearch(url)
       IN  \/ /\ ~m.matched
              /\ out' = Append(out, ParseErrorLine(url))
              /\ exit_code' = 1
              /\ pc' = "exited"
              /\ UNCHANGED <<owner, repo, bi, fi>>
           \/ /\ m.matched
              /\ owner' = m.owner
              /\ repo' = m.repo
              /\ bi' = 1
              /\ fi' = 1
              /\ pc' = "fetch"
              /\ UNCHANGED <<out, exit_code>>
    /\ UNCHANGED <<env, repo_name, requests, readme_content, gemini_runs,
                   song, uncaught>>

\* except urllib.error.HTTPError: continue
CaughtByLoop(resp) == resp.kind = "http_error"

\* break instead of continue: an error abandons the rest of the branch
NextIndex_Break(b, f) == <<b + 1, 1>>

\* the loop indexes of the next iteration of "for branch ... for filename ..."
NextIndex(b, f) ==
    IF f < Len(filenames) THEN <<b, f + 1>> ELSE <<b + 1, 1>>

\* lines 30-37: one iteration, one urlopen call
Request ==
    /\ pc = "fetch"
    /\ bi =< Len(branches)
    /\ LET c    == <<branches[bi], filenames[fi]>>
           resp == net[c]
       IN  /\ requests' = Append(requests, RawUrl(owner, repo, c[1], c[2]))
           /\ \/ /\ resp.kind = "ok"
                 /\ LET decoded == Decode(Body(c))
                    IN  \/ /\ decoded.ok
                           /\ readme_content' = <<decoded.text>>
                           /\ pc' = "generate"
                           /\ UNCHANGED <<uncaught, exit_code>>
                        \/ /\ ~decoded.ok
                           /\ uncaught' = "UnicodeDecodeError"
                           /\ exit_code' = 1
                           /\ pc' = "exited"
                           /\ UNCHANGED readme_content
                 /\ UNCHANGED <<bi, fi>>
              \/ /\ resp.kind # "ok"
                 /\ CaughtByLoop(resp)
                 /\ bi' = NextIndex(bi, fi)[1]
                 /\ fi' = NextIndex(bi, fi)[2]
                 /\ UNCHANGED <<pc, readme_content, uncaught, exit_code>>
              \/ /\ resp.kind # "ok"
                 /\ ~CaughtByLoop(resp)
                 /\ uncaught' = "URLError"
                 /\ exit_code' = 1
                 /\ pc' = "exited"
                 /\ UNCHANGED <<bi, fi, readme_content>>
    /\ UNCHANGED <<env, repo_name, owner, repo, gemini_runs, song, out>>

\* lines 39-40: the loops ended without a return
Exhausted ==
    /\ pc = "fetch"
    /\ bi > Len(branches)
    /\ out' = Append(out, NotFoundLine(ParseArgs(argv).url))
    /\ exit_code' = 1
    /\ pc' = "exited"
    /\ UNCHANGED <<env, repo_name, owner, repo, bi, fi, requests, readme_content,
                   gemini_runs, song, uncaught>>

-----------------------------------------------------------------------------
(* generate_song *)

Min(a, b) == IF a < b THEN a ELSE b

\* readme_text[:8001]
Excerpt_OffByOne(readme_text) ==
    SubSeq(readme_text, 1, Min(Len(readme_text), PromptReadmeLimit + 1))

\* readme_text[:8000]
Excerpt(readme_text) == SubSeq(readme_text, 1, Min(Len(readme_text), PromptReadmeLimit))

\* the values the f-string of lines 46-69 interpolates into the fixed template
Prompt(readme_text, style, name) ==
    [repo_name |-> name, readme |-> Excerpt(readme_text), style |-> style]

\* check=False: a non-zero exit raises nothing
ToolRaises_Never(t) == FALSE

\* subprocess.run(..., check=True) raises CalledProcessError
ToolRaises(t) == t.code # 0

\* main line 102, then generate_song: compose the prompt, run the tool once
Generate ==
    /\ pc = "generate"
    /\ LET style    == ParseArgs(argv).style
           progress == Line("progress", "Composing in the style of: " \o style \o "...")
       IN  /\ gemini_runs' = Append(gemini_runs,
                                    Prompt(readme_content[1], style, repo_name))
           /\ \/ /\ tool.kind = "exit"
                 /\ ~ToolRaises(tool)
                 /\ song' = <<tool.stdout>>
                 /\ out' = Append(out, progress)
                 /\ pc' = "print"
                 /\ UNCHANGED <<uncaught, exit_code>>
              \/ /\ tool.kind = "exit"
                 /\ ToolRaises(tool)
                 /\ out' = out \o <<progress,
                                    Line("error", "Error calling gemini: Command "
                                         \o "['gemini', prompt] returned non-zero "
                                         \o "exit status " \o ToString(tool.code) \o "."),
                                    Line("error", "Stderr: " \o tool.stderr)>>
                 /\ exit_code' = 1
                 /\ pc' = "exited"
                 /\ UNCHANGED <<song, uncaught>>
              \/ /\ tool.kind = "missing"
                 /\ out' = out \o <<progress,
                                    Line("error",
                                         "Error: 'gemini' CLI tool not found in PATH.")>>
                 /\ exit_code' = 1
                 /\ pc' = "exited"
                 /\ UNCHANGED <<song, uncaught>>
              \/ /\ tool.kind = "not_executable"
                 /\ out' = Append(out, progress)
                 /\ uncaught' = "PermissionError"
                 /\ exit_code' = 1
                 /\ pc' = "exited"
                 /\ UNCHANGED song
    /\ UNCHANGED <<env, repo_name, owner, repo, bi, fi, requests, readme_content>>

-----------------------------------------------------------------------------
(* main, lines 105-107, and the return of main *)

Separator == Repeat("=", SeparatorWidth)

PrintSong ==
    /\ pc = "print"
    /\ out' = out \o <<Line("separator", "\n" \o Separator),
                       Line("song", song[1]),
                       Line("separator", Separator \o "\n")>>
    /\ exit_code' = 0
    /\ pc' = "exited"
    /\ UNCHANGED <<env, repo_name, owner, repo, bi, fi, requests, readme_content,
                   gemini_runs, song, uncaught>>

-----------------------------------------------------------------------------

Next ==
    \/ MainStart
    \/ Resolve
    \/ Request
    \/ Exhausted
    \/ Generate
    \/ PrintSong

Spec == Init /\ [][Next]_vars

-----------------------------------------------------------------------------
(* Properties of get_readme_content *)

\* the order of attempts as the specification states it
ClaimedOrder ==
    <<<<"main", "README.md">>, <<"main", "README.rst">>,
      <<"main", "README.txt">>, <<"main", "readme.md">>,
      <<"master", "README.md">>, <<"master", "README.rst">>,
      <<"master", "README.txt">>, <<"master", "readme.md">>>>

ClaimedUrl(k) == RawUrl(owner, repo, ClaimedOrder[k][1], ClaimedOrder[k][2])

Succeeds(c) == net[c] = Found

HttpError(c) == net[c].kind = "http_error"

\* get_readme_content has returned or ended the process
FetchOver == pc \in {"generate", "print", "exited"} /\ owner # ""

Returned == readme_content # NoValue

\* C1: when every candidate either succeeds or fails with an HTTP error, the
\* requests follow the fixed order main/README.md, main/README.rst,
\* main/README.txt, main/readme.md, master/README.md, ... one by one, no request
\* follows a successful one, and the text returned is that of the first
\* candidate of the order that succeeds.
C1_FirstMatchWins ==
    (\A c \in Candidates : Succeeds(c) \/ HttpError(c)) =>
        /\ Len(requests) =< Len(ClaimedOrder)
        /\ \A k \in 1..Len(requests) : requests[k] = ClaimedUrl(k)
        /\ \A k \in 1..(Len(requests) - 1) : ~Succeeds(ClaimedOrder[k])
        /\ Returned =>
              /\ Succeeds(ClaimedOrder[Len(requests)])
              /\ readme_content[1] = TextOf(ClaimedOrder[Len(requests)], doc)
        /\ (FetchOver /\ \E c \in Candidates : Succeeds(c)) => Returned

\* C1 witness: the sixth candidate is returned although the eighth succeeds too
C1_Witness ==
    /\ \A c \in Candidates : Succeeds(c) \/ HttpError(c)
    /\ Returned
    /\ Len(requests) = 6
    /\ Succeeds(<<"master", "readme.md">>)

OnlySucceeds(x) ==
    \A c \in Candidates : IF c = x THEN Succeeds(c) ELSE HttpError(c)

\* C2 as stated: when master/README.md is the only candidate that succeeds, it
\* is the third attempt, and its content is returned after exactly three requests.
C2_AsStated ==
    (OnlySucceeds(<<"master", "README.md">>) /\ Returned) =>
        /\ Len(requests) = 3
        /\ readme_content[1] = TextOf(<<"master", "README.md">>, doc)

\* C2 amended: when master/README.md is the only candidate that succeeds, it is
\* the fifth attempt: its content is returned after exactly five requests and no
\* request follows; the third attempt is main/README.txt, and when that is the
\* only candidate that succeeds its content is returned after exactly three.
C2_FifthCandidate ==
    /\ OnlySucceeds(<<"master", "README.md">>) =>
          /\ Len(requests) =< 5
          /\ FetchOver =>
                /\ Returned
                /\ Len(requests) = 5
                /\ requests[5] = RawUrl(owner, repo, "master", "README.md")
                /\ readme_content[1] = TextOf(<<"master", "README.md">>, doc)
    /\ OnlySucceeds(<<"main", "README.txt">>) =>
          /\ Len(requests) =< 3
          /\ FetchOver =>
                /\ Returned
                /\ Len(requests) = 3
                /\ requests[3] = RawUrl(owner, repo, "main", "README.txt")
                /\ readme_content[1] = TextOf(<<"main", "README.txt">>, doc)

\* C2 witness: master/README.md alone succeeds and the run is past the fetch
C2_Witness ==
    /\ OnlySucceeds(<<"master", "README.md">>)
    /\ pc = "exited"
    /\ Returned
    /\ Len(requests) = 5

\* C3: when all 8 candidates fail with an HTTP error, each is requested exactly
\* once, the last line printed names the URL as given and the main/master
\* branches, the exit code is 1, and gemini is never run.
C3_AllFail ==
    (\A c \in Candidates : HttpError(c)) =>
        /\ gemini_runs = <<>>
        /\ ~Returned
        /\ Len(requests) =< 8
        /\ \A j, k \in 1..Len(requests) : j # k => requests[j] # requests[k]
        /\ FetchOver =>
              /\ pc = "exited"
              /\ {requests[k] : k \in 1..Len(requests)}
                    = {RawUrl(owner, repo, c[1], c[2]) : c \in Candidates}
              /\ Len(requests) = 8
              /\ out[Len(out)].text =
                    "Error: Could not find README in " \o argv[1]
                    \o " (checked main/master branches)."
              /\ exit_code = 1
              /\ uncaught = "none"

\* C3 witness: every candidate failed, not all with the same status, for a URL
\* that normalisation changes
C3_Witness ==
    /\ \A c \in Candidates : HttpError(c)
    /\ \E c, d \in Candidates : net[c].status # net[d].status
    /\ pc = "exited"
    /\ Len(requests) = 8
    /\ Normalize(argv[1]) # argv[1]

NoSlashIn(s, lo, hi) == \A j \in lo..hi : CharAt(s, j) # "/"

\* s contains github.com/<owner>/<repo>, owner and repo non-empty and free of "/"
ContainsShape(s) ==
    \E p \in 1..Len(s) :
        /\ StartsWithAt(s, p, "github.com/")
        /\ \E i \in (p + 12)..(Len(s) - 1) :
              /\ CharAt(s, i) = "/"
              /\ NoSlashIn(s, p + 11, i - 1)
              /\ CharAt(s, i + 1) # "/"

\* C4: when the normalised URL does not contain github.com/<owner>/<repo>, no
\* request is made and gemini is not run, and once the resolver has acted the
\* process has exited with code 1 after printing the parse error.
C4_ParseError ==
    ~ContainsShape(Normalize(argv[1])) =>
        /\ requests = <<>>
        /\ gemini_runs = <<>>
        /\ pc \in {"start", "resolve", "exited"}
        /\ pc = "exited" =>
              /\ exit_code = 1
              /\ uncaught = "none"
              /\ out[Len(out)].kind = "error"
              /\ StartsWithAt(out[Len(out)].text, 1,
                              "Error: Could not parse GitHub URL: ")

\* C4 witness: a URL on github.com without a repo, rejected by the resolver
C4_Witness ==
    /\ ~ContainsShape(Normalize(argv[1]))
    /\ StartsWithAt(argv[1], 1, "https://github.com/foo/")
    /\ pc = "exited"

-----------------------------------------------------------------------------
(* Properties of the resolver and of the display name *)

\* the resolver has matched or rejected the URL
Resolved == pc \notin {"start", "resolve"}

EndsWith(s, lit) ==
    /\ Len(lit) =< Len(s)
    /\ SubSeq(s, Len(s) - Len(lit) + 1, Len(s)) = lit

\* s without one trailing suffix
StripSuffix(s, suffix) ==
    IF EndsWith(s, suffix) THEN SubSeq(s, 1, Len(s) - Len(suffix)) ELSE s

\* C5: for a URL https://github.com/<owner>/<repo> followed by nothing, by a
\* slash or by .git (owner and repo non-empty, free of "/", the repo not itself
\* ending in .git), the resolver extracts exactly that owner and that repo.
C5_ExactOwnerRepo ==
    \A i \in 1..Len(argv[1]) : \A suffix \in {"", "/", ".git"} :
        LET u == argv[1]
            o == SubSeq(u, 20, i - 1)
            r == SubSeq(u, i + 1, Len(u) - Len(suffix))
        IN  ( /\ Resolved
              /\ StartsWithAt(u, 1, "https://github.com/")
              /\ i > 20
              /\ CharAt(u, i) = "/"
              /\ EndsWith(u, suffix)
              /\ Len(u) - Len(suffix) > i
              /\ NoSlashIn(u, 20, i - 1)
              /\ NoSlashIn(u, i + 1, Len(u) - Len(suffix))
              /\ ~EndsWith(r, ".git") )
            => (owner = o /\ repo = r)

\* C9: every prompt carries, as display name, what follows the last "/" of the
\* URL argument without its .git suffix, and as style the second argument when
\* given and "Epic Power Metal" otherwise; for https://github.com/foo/bar.git
\* the display name is bar.
C9_DisplayNameAndStyle ==
    \A k \in 1..Len(gemini_runs) :
        /\ gemini_runs[k].repo_name = StripSuffix(SplitLast(argv[1], "/"), ".git")
        /\ gemini_runs[k].style =
              (IF Len(argv) = 2 THEN argv[2] ELSE "Epic Power Metal")
        /\ argv[1] = "https://github.com/foo/bar.git" => gemini_runs[k].repo_name = "bar"

\* C10: every prompt carries a display name that is non-empty and equal to the
\* repo the resolver extracted from the same URL.
C10_DisplayNameIsRepo ==
    \A k \in 1..Len(gemini_runs) :
        /\ gemini_runs[k].repo_name # ""
        /\ gemini_runs[k].repo_name = repo

-----------------------------------------------------------------------------
(* Properties of generate_song and of the output *)

\* C6: the text embedded in a prompt is a prefix of the fetched text, of at
\* most 8000 characters: the first 8000 when the text is longer, the whole
\* text otherwise.
C6_Truncation ==
    \A k \in 1..Len(gemini_runs) :
        LET text    == readme_content[1]
            excerpt == gemini_runs[k].readme
        IN  /\ Len(excerpt) =< 8000
            /\ Len(excerpt) =< Len(text)
            /\ \A j \in 1..Len(excerpt) : excerpt[j] = text[j]
            /\ Len(text) > 8000 => Len(excerpt) = 8000
            /\ Len(text) =< 8000 => excerpt = text

\* C6 witness: a fetched text of 8001 characters, more than 8001 bytes on the
\* wire, has been embedded
C6_Witness ==
    /\ Len(gemini_runs) = 1
    /\ Len(readme_content[1]) = 8001
    /\ doc.wide
    /\ Len(gemini_runs[1].readme) = 8000

FortyEquals == "========================================"

SeparatorLines ==
    {i \in 1..Len(out) : out[i].text \in {"\n" \o FortyEquals, FortyEquals \o "\n"}}

Mentions(text) == \E i \in 1..Len(out) : out[i].text = text

\* C7: no separator line is printed before the process ends; a run whose fetch
\* succeeded and whose tool exited 0 ends with exit code 0, having printed the
\* tool's standard output between the two separator lines last; every other run
\* ends with a non-zero exit code and without a separator line or the tool's
\* output, and after a non-zero exit of the tool (or a missing tool) the
\* captured error text (or the tool-not-found diagnostic) has been printed.
C7_NoPartialOutput ==
    LET ran == Returned /\ gemini_runs # <<>>
        n   == Len(out)
    IN  /\ pc # "exited" => SeparatorLines = {}
        /\ pc = "exited" =>
              IF Returned /\ tool.kind = "exit" /\ tool.code = 0
              THEN /\ exit_code = 0
                   /\ SeparatorLines = {n - 2, n}
                   /\ out[n - 2].text = "\n" \o FortyEquals
                   /\ out[n - 1].text = tool.stdout
                   /\ out[n].text = FortyEquals \o "\n"
              ELSE /\ exit_code # 0
                   /\ SeparatorLines = {}
                   /\ \A i \in 1..n : out[i].kind # "song"
                   /\ (ran /\ tool.kind = "exit") =>
                          Mentions("Stderr: " \o tool.stderr)
                   /\ (ran /\ tool.kind = "missing") =>
                          Mentions("Error: 'gemini' CLI tool not found in PATH.")

\* C7 witness: the tool wrote half a song and exited 1
C7_Witness ==
    /\ pc = "exited"
    /\ Returned
    /\ gemini_runs # <<>>
    /\ tool.kind = "exit"
    /\ tool.code = 1
    /\ tool.stdout # ""

\* C8: once past the resolver, get_readme_content lets no exception escape, and
\* when it ends the process without returning, every candidate has been tried
\* and its own diagnostic is the last line printed.
C8_NoFailureEscapes ==
    /\ uncaught \notin {"URLError", "UnicodeDecodeError"}
    /\ (FetchOver /\ ~Returned) =>
          /\ Len(requests) = Cardinality(Candidates)
          /\ exit_code # 0
          /\ out[Len(out)].kind = "error"

====
